---- MODULE Spec2Model ----
(***************************************************************************)
(* Observer pattern of src/observer.py: ConcreteSubject keeps a state and  *)
(* a list of observers, and notifies ConcreteObserverA / ConcreteObserverB *)
(* synchronously.  One action per method call; the record `last` is the    *)
(* trace of the most recent call (what the caller and the console saw).    *)
(***************************************************************************)
EXTENDS Integers, Sequences, FiniteSets

\* ------------------------------------------------------------- bounds
\* Longest observer list explored (attach is not called beyond it).
MaxLen == 2
\* Longest observer list explored when only attach and detach are called.
MaxListLen == 3
\* Longest observer list explored when observers call back into the subject.
MaxOpenLen == 3
\* Largest absolute value of a per-subject, per-observer attach/detach balance.
MaxNet == 2

\* ------------------------------------------------- objects of the program
\* ConcreteSubject instances an external caller may construct.
Subjects == {"s1", "s2"}
\* Observer instances, with the class of each.
Observers == {"a1", "b1", "a2"}
ObserverClass == [o \in Observers |-> IF o = "b1" THEN "B" ELSE "A"]
\* `state: int = None`: the class attribute an instance reads until it assigns.
None == -1
\* randrange(0, 10)
RandStart == 0
RandStop == 10
StateValuesInclusive == RandStart .. RandStop
StateValues == RandStart .. (RandStop - 1)
\* Thresholds of the two concrete observers.
ThresholdA == 8
ThresholdB == 4

NoObserver == "-"

VARIABLES
    subjects,    \* the ConcreteSubject instances constructed so far
    state,       \* state[s]: what s.state evaluates to
    _observers,  \* ConcreteSubject._observers, the class-level list
    last,        \* trace of the most recent call
    detached,    \* observers whose only entry was detached and not attached since
    net,         \* net[s][o]: attach(o) calls on s minus successful detach(o) calls on s
    cursor       \* index of the next item of the list iterator of a notify in progress (0: none)

vars == <<subjects, state, _observers, last, detached, net, cursor>>

\* --------------------------------------------------------- list helpers
Range(seq) == {seq[i] : i \in DOMAIN seq}
Member(seq, o) == \E i \in DOMAIN seq : seq[i] = o
CountOf(o, seq) == Cardinality({i \in DOMAIN seq : seq[i] = o})
BagOf(seq) == [o \in Observers |-> CountOf(o, seq)]
FirstIndex(seq, o) == CHOOSE i \in DOMAIN seq : seq[i] = o /\ \A j \in 1..(i - 1) : seq[j] # o

\* list.append(x)
list_append_unique(seq, o) == IF Member(seq, o) THEN seq ELSE Append(seq, o)
list_append(seq, o) == Append(seq, o)

\* list.remove(x): drops the first item equal to x (the caller checks membership;
\* Python raises ValueError otherwise).
list_remove_all(seq, o) == SelectSeq(seq, LAMBDA x : x # o)
list_remove_last(seq, o) ==
    LET k == CHOOSE i \in DOMAIN seq : seq[i] = o /\ \A j \in (i + 1)..Len(seq) : seq[j] # o
    IN  SubSeq(seq, 1, k - 1) \o SubSeq(seq, k + 1, Len(seq))
list_remove_first_or_last(seq, o) ==
    IF Len(seq) > 0 /\ seq[Len(seq)] = o THEN SubSeq(seq, 1, Len(seq) - 1)
    ELSE LET k == CHOOSE i \in DOMAIN seq : seq[i] = o /\ \A j \in 1..(i - 1) : seq[j] # o
         IN  SubSeq(seq, 1, k - 1) \o SubSeq(seq, k + 1, Len(seq))
list_remove(seq, o) ==
    LET k == FirstIndex(seq, o)
    IN  SubSeq(seq, 1, k - 1) \o SubSeq(seq, k + 1, Len(seq))

\* self._observers: no instance ever assigns the attribute, so the lookup
\* always resolves to the class attribute.
ObserversOf(s) == _observers

\* ------------------------------------------------------------ observers
\* ConcreteObserverA.update / ConcreteObserverB.update reading subject.state = st.
\* Comparing None with an int raises TypeError.
update_inclusive(cls, st) ==
    IF st = None THEN [reacted |-> FALSE, err |-> "TypeError"]
    ELSE IF cls = "A" THEN [reacted |-> st <= ThresholdA, err |-> "ok"]
    ELSE [reacted |-> st >= ThresholdB, err |-> "ok"]
update(cls, st) ==
    IF st = None THEN [reacted |-> FALSE, err |-> "TypeError"]
    ELSE IF cls = "A" THEN [reacted |-> st < ThresholdA, err |-> "ok"]
    ELSE [reacted |-> st > ThresholdB, err |-> "ok"]

\* The for loop of notify from the list iterator's index i on: one update per
\* item, in index order; an exception of update ends the loop and propagates.
RECURSIVE notify_loop(_, _, _, _)
notify_loop(obs, st, i, log) ==
    IF i > Len(obs) THEN [log |-> log, err |-> "ok"]
    ELSE LET u == update(ObserverClass[obs[i]], st)
             e == [obs |-> obs[i], seen |-> st, reacted |-> u.reacted, raised |-> u.err # "ok"]
         IN  IF u.err # "ok" THEN [log |-> Append(log, e), err |-> u.err]
             ELSE notify_loop(obs, st, i + 1, Append(log, e))

\* notify() on subject s, where st maps each subject to its state and obs is
\* the list the loop iterates.
notify_state_first(s, st, obs) ==
    IF st[s] = None THEN [log |-> <<>>, err |-> "TypeError"] ELSE notify_loop(obs, st[s], 1, <<>>)
notify_skip_first(s, st, obs) == notify_loop(obs, st[s], 2, <<>>)
notify_run(s, st, obs) == notify_loop(obs, st[s], 1, <<>>)

\* ------------------------------------------------------------- the trace
\* op/subj/obs: the call; err: the exception that reached the caller ("ok": none);
\* pre: the observer list when the call started; replaced: the call overwrote an
\* earlier integer state with a different one; log: the update calls made, in
\* order; rt/base: the call is detach(o) right after attach(o) on the same subject,
\* and base is the list before that attach.
Call(op, s, o, err, pre, replaced, log, rt, base) ==
    [op |-> op, subj |-> s, obs |-> o, err |-> err, pre |-> pre, replaced |-> replaced,
     log |-> log, rt |-> rt, base |-> base]

Init ==
    /\ subjects = {}
    /\ state = [s \in Subjects |-> None]
    /\ _observers = <<>>
    /\ last = Call("init", "-", NoObserver, "ok", <<>>, FALSE, <<>>, FALSE, <<>>)
    /\ detached = {}
    /\ net = [s \in Subjects |-> [o \in Observers |-> 0]]
    /\ cursor = 0

\* ConcreteSubject(): the class defines no __init__, nothing is assigned.
construct(s) ==
    /\ s \notin subjects
    /\ subjects' = subjects \cup {s}
    /\ last' = Call("construct", s, NoObserver, "ok", _observers, FALSE, <<>>, FALSE, <<>>)
    /\ UNCHANGED <<state, _observers, detached>>

attach(s, o) ==
    /\ s \in subjects
    /\ _observers' = list_append(_observers, o)
    /\ last' = Call("attach", s, o, "ok", _observers, FALSE, <<>>, FALSE, <<>>)
    /\ detached' = detached \ {o}
    /\ UNCHANGED <<subjects, state>>

detach_ignore_missing(s, o) ==
    /\ s \in subjects
    /\ last' = Call("detach", s, o, "ok", _observers, FALSE, <<>>, FALSE, <<>>)
    /\ _observers' = list_remove_all(_observers, o)
    /\ detached' = IF Member(_observers, o) THEN detached \cup {o} ELSE detached
    /\ UNCHANGED <<subjects, state>>
detach(s, o) ==
    /\ s \in subjects
    /\ LET follows == last.op = "attach" /\ last.subj = s /\ last.obs = o
           base == IF follows THEN last.pre ELSE <<>>
       IN  IF Member(_observers, o)
           THEN /\ _observers' = list_remove(_observers, o)
                /\ last' = Call("detach", s, o, "ok", _observers, FALSE, <<>>, follows, base)
                /\ detached' = IF CountOf(o, _observers) = 1 THEN detached \cup {o} ELSE detached
           ELSE /\ last' = Call("detach", s, o, "ValueError", _observers, FALSE, <<>>, follows, base)
                /\ UNCHANGED <<_observers, detached>>
    /\ UNCHANGED <<subjects, state>>

notify(s) ==
    /\ s \in subjects
    /\ LET r == notify_run(s, state, ObserversOf(s))
       IN  last' = Call("notify", s, NoObserver, r.err, _observers, FALSE, r.log, FALSE, <<>>)
    /\ UNCHANGED <<subjects, state, _observers, detached>>

do_some_business_logic_notify_first(s, v) ==
    /\ s \in subjects
    /\ state' = [state EXCEPT ![s] = v]
    /\ LET r == notify_run(s, state, ObserversOf(s))
       IN  last' = Call("business", s, NoObserver, r.err, _observers, state[s] # None /\ state[s] # v, r.log, FALSE, <<>>)
    /\ UNCHANGED <<subjects, _observers, detached>>
do_some_business_logic(s, v) ==
    /\ s \in subjects
    /\ state' = [state EXCEPT ![s] = v]
    /\ LET r == notify_run(s, state', ObserversOf(s))
       IN  last' = Call("business", s, NoObserver, r.err, _observers, state[s] # None /\ state[s] # v, r.log, FALSE, <<>>)
    /\ UNCHANGED <<subjects, _observers, detached>>

Construct == \E s \in Subjects : construct(s) /\ UNCHANGED <<net, cursor>>
Attach ==
    \E s \in Subjects, o \in Observers :
        Len(_observers) < MaxLen /\ attach(s, o) /\ UNCHANGED <<net, cursor>>
Detach == \E s \in Subjects, o \in Observers : detach(s, o) /\ UNCHANGED <<net, cursor>>
Notify == \E s \in Subjects : notify(s) /\ UNCHANGED <<net, cursor>>
DoSomeBusinessLogic == \E s \in Subjects, v \in StateValues : do_some_business_logic(s, v) /\ UNCHANGED <<net, cursor>>

Next == Construct \/ Attach \/ Detach \/ Notify \/ DoSomeBusinessLogic

Spec == Init /\ [][Next]_vars

\* ------------------------------------------- registration bookkeeping
\* The same attach/detach calls with the per-subject balance kept.
ConstructCounted == \E s \in Subjects : construct(s) /\ UNCHANGED <<net, cursor>>
AttachCounted ==
    \E s \in Subjects, o \in Observers :
        /\ net[s][o] < MaxNet
        /\ Len(_observers) < MaxLen
        /\ attach(s, o)
        /\ net' = [net EXCEPT ![s][o] = @ + 1]
        /\ UNCHANGED cursor
DetachCounted ==
    \E s \in Subjects, o \in Observers :
        /\ net[s][o] > -MaxNet
        /\ detach(s, o)
        /\ net' = IF last'.err = "ok" THEN [net EXCEPT ![s][o] = @ - 1] ELSE net
        /\ UNCHANGED cursor

NextReg == ConstructCounted \/ AttachCounted \/ DetachCounted

SpecReg == Init /\ [][NextReg]_vars

\* ------------------------------------------------- the list on its own
\* construct, attach and detach only, on longer lists.
AttachList ==
    \E s \in Subjects, o \in Observers :
        Len(_observers) < MaxListLen /\ attach(s, o) /\ UNCHANGED <<net, cursor>>

NextList == Construct \/ AttachList \/ Detach

SpecList == Init /\ [][NextList]_vars

\* ------------------------------------- observers that call the subject
\* Observer is an open interface: update receives the subject and an
\* implementation outside this file may call subject.attach / subject.detach
\* from update, or raise.  notify is then followed item by item: the for
\* statement asks the list iterator for the item at `cursor` of the live list.
CustomObservers == {"p1"}
OpenObservers == {"a1", "b1"} \cup CustomObservers
OpenSubjects == {"s1"}
Effects ==
    {<<"none", NoObserver>>, <<"raise", NoObserver>>}
        \cup {<<"attach", x>> : x \in OpenObservers}
        \cup {<<"detach", x>> : x \in OpenObservers}

\* What an update that performs effect eff leaves behind: the list, the
\* exception leaving update, and the observers detached for good.
custom_update(eff, obs, det) ==
    CASE eff[1] = "none" -> [list |-> obs, err |-> "ok", det |-> det]
      [] eff[1] = "raise" -> [list |-> obs, err |-> "Error", det |-> det]
      [] eff[1] = "attach" ->
            [list |-> list_append(obs, eff[2]), err |-> "ok", det |-> det \ {eff[2]}]
      [] eff[1] = "detach" ->
            IF Member(obs, eff[2])
            THEN [list |-> list_remove(obs, eff[2]), err |-> "ok",
                  det |-> IF CountOf(eff[2], obs) = 1 THEN det \cup {eff[2]} ELSE det]
            ELSE [list |-> obs, err |-> "ValueError", det |-> det]

\* The for loop after one update call: an exception leaves the loop (there is
\* no try around update), otherwise the iterator moves to the next index.
loop_next_swallow(i, err) == i + 1
loop_next(i, err) == IF err = "ok" THEN i + 1 ELSE 0

Idle == cursor = 0

ConstructOpen == \E s \in OpenSubjects : Idle /\ construct(s) /\ UNCHANGED <<net, cursor>>
AttachOpen ==
    \E s \in OpenSubjects, o \in OpenObservers :
        Idle /\ Len(_observers) < MaxOpenLen /\ attach(s, o) /\ UNCHANGED <<net, cursor>>
DetachOpen ==
    \E s \in OpenSubjects, o \in OpenObservers :
        Idle /\ detach(s, o) /\ UNCHANGED <<net, cursor>>

\* notify() entered: the for statement creates the iterator of self._observers.
NotifyEnter ==
    \E s \in OpenSubjects :
        /\ Idle /\ s \in subjects
        /\ cursor' = 1
        /\ last' = Call("notify", s, NoObserver, "running", _observers, FALSE, <<>>, FALSE, <<>>)
        /\ UNCHANGED <<subjects, state, _observers, detached, net>>

\* do_some_business_logic() up to the call of notify.
BusinessEnter ==
    \E s \in OpenSubjects, v \in StateValues :
        /\ Idle /\ s \in subjects
        /\ state' = [state EXCEPT ![s] = v]
        /\ cursor' = 1
        /\ last' = Call("business", s, NoObserver, "running", _observers,
                        state[s] # None /\ state[s] # v, <<>>, FALSE, <<>>)
        /\ UNCHANGED <<subjects, _observers, detached, net>>

\* One iteration whose item is a ConcreteObserverA / ConcreteObserverB.
UpdateConcrete ==
    /\ cursor > 0 /\ cursor <= Len(_observers)
    /\ _observers[cursor] \in Observers
    /\ LET o == _observers[cursor]
           st == state[last.subj]
           u == update(ObserverClass[o], st)
           e == [obs |-> o, seen |-> st, reacted |-> u.reacted, raised |-> u.err # "ok"]
       IN  /\ cursor' = loop_next(cursor, u.err)
           /\ last' = [last EXCEPT !.log = Append(@, e),
                                   !.err = IF cursor' = 0 THEN u.err ELSE @]
    /\ UNCHANGED <<subjects, state, _observers, detached, net>>

\* One iteration whose item is an observer defined elsewhere.
UpdateCustom ==
    /\ cursor > 0 /\ cursor <= Len(_observers)
    /\ _observers[cursor] \in CustomObservers
    /\ \E eff \in Effects :
          /\ eff[1] = "attach" => Len(_observers) < MaxOpenLen
          /\ LET o == _observers[cursor]
                 u == custom_update(eff, ObserversOf(last.subj), detached)
                 e == [obs |-> o, seen |-> state[last.subj], reacted |-> FALSE,
                       raised |-> u.err # "ok"]
             IN  /\ _observers' = u.list
                 /\ detached' = u.det
                 /\ cursor' = loop_next(cursor, u.err)
                 /\ last' = [last EXCEPT !.log = Append(@, e),
                                         !.err = IF cursor' = 0 THEN u.err ELSE @]
    /\ UNCHANGED <<subjects, state, net>>

\* The iterator is exhausted: notify (and do_some_business_logic) returns.
NotifyReturn ==
    /\ cursor > Len(_observers)
    /\ cursor' = 0
    /\ last' = [last EXCEPT !.err = "ok"]
    /\ UNCHANGED <<subjects, state, _observers, detached, net>>

NextOpen ==
    \/ ConstructOpen \/ AttachOpen \/ DetachOpen
    \/ NotifyEnter \/ BusinessEnter
    \/ UpdateConcrete \/ UpdateCustom \/ NotifyReturn

SpecOpen == Init /\ [][NextOpen]_vars

\* ---------------------------------------------------------------- claims
RECURSIVE SumOver(_, _)
SumOver(f, S) == IF S = {} THEN 0 ELSE LET x == CHOOSE y \in S : TRUE IN f[x] + SumOver(f, S \ {x})
\* attach calls on s minus successful detach calls on s
NetCalls(s) == SumOver(net[s], Observers)
\* the attach/detach calls on every other subject balance to zero (none were made,
\* or each attach was undone by a successful detach on the same subject)
OnlyCalledOn(s) == \A t \in Subjects \ {s} : \A o \in Observers : net[t][o] = 0
UpdatesOf(o, log) == Cardinality({i \in DOMAIN log : log[i].obs = o})
LogObservers(log) == [i \in DOMAIN log |-> log[i].obs]

\* C1: when the attach and detach calls were made on one subject, starting from
\* the empty list, the length of its observer list is the number of attach calls
\* minus the number of detach calls that did not raise.
C1_LengthIsAttachMinusDetach ==
    \A s \in subjects : OnlyCalledOn(s) => Len(ObserversOf(s)) = NetCalls(s)
C1_Witness ==
    /\ last.op = "detach" /\ last.err = "ok"
    /\ OnlyCalledOn(last.subj)
    /\ CountOf(last.obs, last.pre) = 2
    /\ NetCalls(last.subj) = 1

\* C2 (as stated): after do_some_business_logic() state is in 0..9 and update was
\* invoked exactly once on every observer in the list, in list order.
C2_EachObserverExactlyOnce ==
    last.op = "business" =>
        /\ state[last.subj] \in StateValues
        /\ \A o \in Range(last.pre) : UpdatesOf(o, last.log) = 1
        /\ \A i, j \in DOMAIN last.log :
              i < j => FirstIndex(last.pre, last.log[i].obs) <= FirstIndex(last.pre, last.log[j].obs)
\* C2 (amended): after do_some_business_logic() state is in 0..9 and update was
\* invoked exactly once per entry of the observer list, in list order, so an
\* observer attached twice is updated twice.
C2_OncePerEntryInOrder ==
    last.op = "business" =>
        /\ last.err = "ok"
        /\ state[last.subj] \in StateValues
        /\ LogObservers(last.log) = last.pre
C2_Witness ==
    /\ last.op = "business"
    /\ Len(last.pre) = 2 /\ last.pre[1] # last.pre[2]
    /\ Len(last.log) = 2

\* C3: every update call made during do_some_business_logic() reads the state
\* value chosen by that call.
C3_UpdateReadsNewState ==
    last.op = "business" =>
        \A i \in DOMAIN last.log : last.log[i].seen = state[last.subj]
C3_Witness ==
    /\ last.op = "business" /\ last.replaced
    /\ Len(last.log) = 2
    /\ \A i \in DOMAIN last.log : last.log[i].seen = state[last.subj]

\* C4: detach of an observer that is not in the list raises to the caller and
\* leaves the observer list and the state as they were.
C4_DetachNonMemberRaises ==
    [][(last'.op = "detach" /\ ~Member(_observers, last'.obs)) =>
          (last'.err = "ValueError" /\ _observers' = _observers /\ state' = state)]_vars
C4_Witness ==
    /\ last.op = "detach" /\ last.err = "ValueError"
    /\ ~Member(_observers, last.obs)
    /\ _observers # <<>> /\ _observers = last.pre
    /\ state[last.subj] # None

\* C5: attach(O) immediately followed by detach(O) leaves the list with the same
\* observers, each with the same number of entries, as before the attach.
C5_AttachDetachRoundTrip ==
    (last.op = "detach" /\ last.rt) =>
        (last.err = "ok" /\ BagOf(ObserversOf(last.subj)) = BagOf(last.base))
C5_Witness ==
    /\ last.op = "detach" /\ last.rt
    /\ Member(last.base, last.obs)
    /\ BagOf(_observers) = BagOf(last.base)

\* C6: the observer list of a subject holds only observers passed to attach on
\* that subject and not since removed by detach on that subject.
C6_OnlyAttachedOnThisSubject ==
    \A s \in subjects : \A o \in Observers :
        Member(ObserversOf(s), o) => net[s][o] > 0

\* C7: attach or detach on one subject never changes the observer list of
\* another subject, and a newly constructed subject starts with an empty list.
C7_IndependentLists ==
    [][/\ last'.op \in {"attach", "detach"} =>
            \A t \in subjects \ {last'.subj} : ObserversOf(t)' = ObserversOf(t)
       /\ last'.op = "construct" => ObserversOf(last'.subj)' = <<>>]_vars

\* C8: an observer whose only entry was detached is not updated by any later
\* notify or do_some_business_logic until it is attached again, and the
\* observers still in the list are updated.
C8_DetachedNotUpdatedOthersAre ==
    (last.op \in {"notify", "business"} /\ detached # {}) =>
        /\ \A i \in DOMAIN last.log : last.log[i].obs \notin detached
        /\ \A o \in Range(ObserversOf(last.subj)) : UpdatesOf(o, last.log) >= 1

\* C9: ConcreteObserverA reacts exactly for states 0..7 and ConcreteObserverB
\* exactly for states 5..9: both for 5, 6, 7, only A for 0..4, only B for 8, 9.
C9_ReactionThresholds ==
    \A i \in DOMAIN last.log :
        LET e == last.log[i]
            cls == ObserverClass[e.obs]
        IN  e.seen \in 0..9 =>
              /\ ~e.raised
              /\ cls = "A" => (e.reacted <=> e.seen \in {0, 1, 2, 3, 4, 5, 6, 7})
              /\ cls = "B" => (e.reacted <=> e.seen \in {5, 6, 7, 8, 9})
C9_Witness ==
    /\ Len(last.log) = 2
    /\ \E i, j \in DOMAIN last.log :
          /\ ObserverClass[last.log[i].obs] = "A" /\ ~last.log[i].reacted
          /\ ObserverClass[last.log[j].obs] = "B" /\ last.log[j].reacted
          /\ last.log[i].seen = 8 /\ last.log[j].seen = 8

\* C10: attach always adds an entry, and a notify on a list that holds an
\* observer twice invokes that observer's update twice.
C10_DuplicateNotifiedTwice ==
    [][/\ last'.op = "attach" =>
            CountOf(last'.obs, _observers') = CountOf(last'.obs, _observers) + 1
       /\ last'.op = "notify" =>
            \A o \in Observers :
                CountOf(o, _observers) = 2 => UpdatesOf(o, last'.log) = 2]_vars

\* C12 (as stated): with ConcreteObserverA / ConcreteObserverB as observers the
\* only error a call can produce is the error of detach on a non-member; notify
\* on a subject whose state is unset completes without error.
C12_OnlyDetachErrors ==
    last.err # "ok" =>
        (last.op = "detach" /\ last.err = "ValueError" /\ ~Member(last.pre, last.obs))

\* C13: notify on an empty observer list makes no update call, raises nothing
\* and leaves state and the observer list unchanged.
C13_NotifyEmptyList ==
    [][(last'.op = "notify" /\ ObserversOf(last'.subj) = <<>>) =>
          /\ last'.log = <<>>
          /\ last'.err = "ok"
          /\ state' = state
          /\ _observers' = _observers]_vars
C13_Witness ==
    /\ last.op = "notify" /\ last.pre = <<>>
    /\ last.log = <<>> /\ last.err = "ok"
    /\ state[last.subj] = None
    /\ _observers = <<>>

\* C17: attach and detach never change state; notify changes neither state nor
\* the observer list; do_some_business_logic never changes the observer list;
\* state changes only in do_some_business_logic and is always unset or in 0..9.
C17_Frame ==
    /\ \A s \in Subjects : state[s] = None \/ state[s] \in 0..9
    /\ [][/\ last'.op \in {"attach", "detach"} => state' = state
          /\ last'.op = "notify" => (state' = state /\ _observers' = _observers)
          /\ last'.op = "business" => _observers' = _observers
          /\ state' # state => last'.op = "business"
          /\ \A s \in Subjects : state'[s] = None \/ state'[s] \in 0..9]_vars
C17_Witness ==
    /\ last.op = "business" /\ last.replaced
    /\ Len(_observers) = 2 /\ _observers = last.pre
    /\ \E s \in subjects \ {last.subj} : state[s] = None

\* C14: a successful detach removes exactly the lowest-index entry equal to the
\* observer: the list is one shorter, later duplicates stay and the remaining
\* entries keep their relative order.
C14_DetachRemovesFirst ==
    (last.op = "detach" /\ last.err = "ok") =>
        /\ Len(_observers) = Len(last.pre) - 1
        /\ CountOf(last.obs, _observers) = CountOf(last.obs, last.pre) - 1
        /\ \E k \in DOMAIN last.pre :
              /\ last.pre[k] = last.obs
              /\ \A j \in 1..(k - 1) : last.pre[j] # last.obs /\ _observers[j] = last.pre[j]
              /\ \A j \in k..Len(_observers) : _observers[j] = last.pre[j + 1]
C14_Witness ==
    /\ last.op = "detach" /\ last.err = "ok"
    /\ Len(last.pre) = 3
    /\ last.pre[1] # last.obs /\ last.pre[2] = last.obs /\ last.pre[3] = last.obs
    /\ _observers = <<last.pre[1], last.obs>>

\* C18 (as stated): attach(O) followed by detach(O) restores the exact ordered
\* sequence of the list, also when O was already in the list.
C18_ExactSequenceRestored ==
    (last.op = "detach" /\ last.rt) => ObserversOf(last.subj) = last.base
\* C18 (amended): attach(O) followed by detach(O) restores the exact ordered
\* sequence when O was not in the list before the attach; when it was, the
\* list is the earlier one with its first entry of O moved to the end.
C18_RestoredOrFirstMovedToEnd ==
    (last.op = "detach" /\ last.rt) =>
        LET now == ObserversOf(last.subj)
        IN  /\ last.err = "ok"
            /\ Len(now) = Len(last.base)
            /\ ~Member(last.base, last.obs) => now = last.base
            /\ Member(last.base, last.obs) =>
                  \E k \in DOMAIN last.base :
                      /\ last.base[k] = last.obs
                      /\ \A j \in 1..(k - 1) : last.base[j] # last.obs /\ now[j] = last.base[j]
                      /\ \A j \in k..(Len(now) - 1) : now[j] = last.base[j + 1]
                      /\ now[Len(now)] = last.obs
C18_Witness ==
    /\ last.op = "detach" /\ last.rt
    /\ Len(last.base) = 2 /\ last.base[1] # last.base[2]
    /\ ~Member(last.base, last.obs)
    /\ _observers = last.base

C15_SnapshotDelivery ==
    (last.op \in {"notify", "business"} /\ last.err = "ok") =>
        LogObservers(last.log) = last.pre

\* C16: a notify or do_some_business_logic call makes at most as many update
\* calls as the observer list had entries when the call started.
C16_UpdatesBoundedByStartLength ==
    last.op \in {"notify", "business"} => Len(last.log) <= Len(last.pre)

====
